---- MODULE Spec2Model ----
(***************************************************************************)
(* Model of src/fix_session.py: fix_session(session_path) reads a          *)
(* line-delimited JSON session, adds a leading file-history-snapshot       *)
(* record when none is present, normalises fields of the other records,    *)
(* renames the original to <stem>.jsonl.backup and writes the fixed        *)
(* records to the original path.                                           *)
(*                                                                         *)
(* A JSON object is a TLA+ function from its keys to its values (a key is  *)
(* present iff it is in the DOMAIN).  A line of a file is a record with a  *)
(* kind: "blank" (empty after strip), "bad" (json.loads raises),           *)
(* "value" (valid JSON that is not an object, e.g. 42) or "obj"; an "obj"  *)
(* line also says whether its text is exactly what json.dumps emits        *)
(* (canon) or some other spelling of the same object.  Key order inside    *)
(* an object is not modelled.                                              *)
(***************************************************************************)
EXTENDS Integers, Sequences, FiniteSets, TLC

VARIABLES posix, fs, pc, session_path, lines, has_snapshot, fixed_lines,
          i, k, result, pre, hist

vars == <<posix, fs, pc, session_path, lines, has_snapshot, fixed_lines,
          i, k, result, pre, hist>>

\* ------------------------------------------------------------------ bounds
MaxLines == 2
MaxRuns == 2

\* ------------------------------------------------------- paths and files
\* A file name split at its dots: s.jsonl is <<"s", "jsonl">>.
SessionPaths == {<<"s", "jsonl">>, <<"s", "txt">>}

\* Path.with_suffix('.jsonl.backup'): the last suffix (if any) is replaced.
BackupPath(p) ==
    IF Len(p) > 1 THEN SubSeq(p, 1, Len(p) - 1) \o <<"jsonl", "backup">>
                  ELSE p \o <<"jsonl", "backup">>

Names == SessionPaths \cup {BackupPath(p) : p \in SessionPaths}

Missing == [exists |-> FALSE, data |-> <<>>]
File(d) == [exists |-> TRUE, data |-> d]

\* Path.exists()
Exists(f, p) == f[p].exists

\* ------------------------------------------------------------ JSON values
SNAPSHOT == "file-history-snapshot"
VERSION == "2.0.28"
DefaultTimestamp == "2025-10-29T10:00:00.000Z"
DefaultThinking == [level |-> "high", disabled |-> FALSE, triggers |-> <<>>]

\* Identifiers uuid.uuid4() can produce.
GenIds == {"g1", "g2"}
ReqId(g) == IF g = "g1" THEN "req_g1" ELSE "req_g2"

\* msg.get('type', '')
MsgType(msg) == IF "type" \in DOMAIN msg THEN msg["type"] ELSE ""

IsSnapshot(msg) == MsgType(msg) = SNAPSHOT

\* msg[key] = v
SetField(msg, key, v) ==
    [x \in DOMAIN msg \cup {key} |-> IF x = key THEN v ELSE msg[x]]

\* Records the input file may hold.
InputRecords ==
    { [type |-> "user", uuid |-> "abc", timestamp |-> "2025-01-01T00:00:00.000Z"],
      [type |-> "assistant", version |-> "1.0.0"],
      [type |-> SNAPSHOT, version |-> "1.0.0", messageId |-> "m0"],
      [type |-> "user", thinkingMetadata |-> [disabled |-> TRUE],
       gitBranch |-> "dev", version |-> VERSION],
      [type |-> "assistant", requestId |-> "req_old", uuid |-> "u2"],
      [type |-> "summary", version |-> "0.9"],
      [uuid |-> "u3"] }

BlankLine == [kind |-> "blank"]
BadLine == [kind |-> "bad"]
ValueLine == [kind |-> "value"]
ObjLine(r, c) == [kind |-> "obj", rec |-> r, canon |-> c]

InputLines ==
    {BlankLine, BadLine, ValueLine}
        \cup {ObjLine(r, TRUE) : r \in InputRecords}
        \cup {ObjLine(r, FALSE) : r \in {x \in InputRecords : "uuid" \notin DOMAIN x}}

Contents == UNION {[1..n -> InputLines] : n \in 0..MaxLines}

\* json.dumps(msg, ensure_ascii=False) + '\n'
Dumps(msg) == ObjLine(msg, TRUE)

\* What json.loads gives for a line that parses.
Dict(r) == [dict |-> TRUE, msg |-> r]
NonDict == [dict |-> FALSE]
Loads(line) == IF line.kind = "obj" THEN Dict(line.rec) ELSE NonDict

\* line.strip() is empty, or json.loads raises JSONDecodeError
Skipped(line) == line.kind \in {"blank", "bad"}

RECURSIVE ParseLines(_)
ParseLines(data) ==
    IF data = <<>> THEN <<>>
    ELSE IF Skipped(Head(data)) THEN ParseLines(Tail(data))
         ELSE <<Loads(Head(data))>> \o ParseLines(Tail(data))

IsSnapDict(v) == v.dict /\ IsSnapshot(v.msg)
IsNonDict(v) == ~v.dict

\* Positions of the snapshot records and of the non-objects among the parsed
\* values.
SnapPositions(ls) == {j \in 1..Len(ls) : IsSnapDict(ls[j])}
NonDictPositions(ls) == {j \in 1..Len(ls) : IsNonDict(ls[j])}
Min(S) == CHOOSE x \in S : \A y \in S : x <= y

\* any(msg.get('type') == 'file-history-snapshot' for msg in lines): the
\* generator stops at the first snapshot; a non-object reached before that
\* has no .get and raises AttributeError.
AnyRaises(ls) ==
    IF NonDictPositions(ls) = {} THEN FALSE
    ELSE IF SnapPositions(ls) = {} THEN TRUE
    ELSE Min(NonDictPositions(ls)) < Min(SnapPositions(ls))

\* Variant: only the first record is looked at.
HasSnapshotFirstOnly(ls) == IsSnapDict(ls[1])

HasSnapshot(ls) == SnapPositions(ls) # {}

\* Variant: the nested messageId is always a generated identifier.
SnapshotFreshInnerId(first, g) ==
    [type |-> SNAPSHOT,
     messageId |-> IF "uuid" \in DOMAIN first THEN first["uuid"] ELSE g,
     snapshot |-> [messageId |-> g,
                   trackedFileBackups |-> <<>>,
                   timestamp |-> IF "timestamp" \in DOMAIN first
                                 THEN first["timestamp"]
                                 ELSE DefaultTimestamp],
     isSnapshotUpdate |-> FALSE]

\* The synthesized record; g is the value of str(uuid.uuid4()).
Snapshot(first, g) ==
    LET first_msg_uuid == IF "uuid" \in DOMAIN first THEN first["uuid"] ELSE g
    IN [type |-> SNAPSHOT,
        messageId |-> first_msg_uuid,
        snapshot |-> [messageId |-> first_msg_uuid,
                      trackedFileBackups |-> <<>>,
                      timestamp |-> IF "timestamp" \in DOMAIN first
                                    THEN first["timestamp"]
                                    ELSE DefaultTimestamp],
        isSnapshotUpdate |-> FALSE]

\* Variant: the version is set only where it is absent.
FixVersionIfAbsent(msg) ==
    IF "version" \notin DOMAIN msg THEN SetField(msg, "version", VERSION) ELSE msg

\* Variant: a requestId is generated for every assistant record.
FixRequestIdAlways(msg, g) ==
    IF MsgType(msg) = "assistant"
    THEN SetField(msg, "requestId", ReqId(g)) ELSE msg

\* Variant: thinkingMetadata is added to assistant records instead.
FixThinkingAssistant(msg) ==
    IF MsgType(msg) = "assistant" /\ "thinkingMetadata" \notin DOMAIN msg
    THEN SetField(msg, "thinkingMetadata", DefaultThinking) ELSE msg

\* The four field rules applied to a record that is not a snapshot.
FixVersion(msg) ==
    IF "version" \in DOMAIN msg THEN SetField(msg, "version", VERSION) ELSE msg

FixGitBranch(msg) ==
    IF "gitBranch" \notin DOMAIN msg /\ MsgType(msg) \in {"user", "assistant"}
    THEN SetField(msg, "gitBranch", "main") ELSE msg

FixRequestId(msg, g) ==
    IF MsgType(msg) = "assistant" /\ "requestId" \notin DOMAIN msg
    THEN SetField(msg, "requestId", ReqId(g)) ELSE msg

FixThinking(msg) ==
    IF MsgType(msg) = "user" /\ "thinkingMetadata" \notin DOMAIN msg
    THEN SetField(msg, "thinkingMetadata", DefaultThinking) ELSE msg

FixFields(msg, g) == FixThinking(FixRequestId(FixGitBranch(FixVersion(msg)), g))

\* Variant: the backup is a copy, the source stays.
CopyFs(f, src, dst) == [f EXCEPT ![dst] = f[src]]

\* session_file.rename(backup_path)
RenameFs(f, src, dst) == [f EXCEPT ![dst] = f[src], ![src] = Missing]

\* ------------------------------------------------------------------ state
NoLocals ==
    /\ lines' = <<>>
    /\ has_snapshot' = FALSE
    /\ fixed_lines' = <<>>
    /\ i' = 0
    /\ k' = 0

Run(p, ok, before, after) == [path |-> p, ok |-> ok, pre |-> before, post |-> after]

Init ==
    /\ posix \in BOOLEAN
    /\ \E p \in SessionPaths, d \in Contents :
          fs = [n \in Names |-> IF n = p THEN File(d) ELSE Missing]
    /\ pc = "idle"
    /\ session_path = <<"s", "jsonl">>
    /\ lines = <<>>
    /\ has_snapshot = FALSE
    /\ fixed_lines = <<>>
    /\ i = 0
    /\ k = 0
    /\ result = "none"
    /\ pre = fs
    /\ hist = <<>>

\* ---------------------------------------------------------------- actions
\* Lines 15-18: the path does not exist; fix_session returns False.
NotFound(p) ==
    /\ pc = "idle"
    /\ Len(hist) < MaxRuns
    /\ ~Exists(fs, p)
    /\ session_path' = p
    /\ pre' = fs
    /\ result' = "False"
    /\ fs' = fs
    /\ hist' = Append(hist, Run(p, FALSE, fs, fs'))
    /\ NoLocals
    /\ UNCHANGED <<posix, pc>>

\* Variant: the backup is made before the lines are parsed.
NoValidMessagesAfterBackup(p) ==
    /\ pc = "idle"
    /\ Len(hist) < MaxRuns
    /\ Exists(fs, p)
    /\ ParseLines(fs[p].data) = <<>>
    /\ session_path' = p
    /\ pre' = fs
    /\ result' = "False"
    /\ fs' = RenameFs(fs, p, BackupPath(p))
    /\ hist' = Append(hist, Run(p, FALSE, fs, fs'))
    /\ NoLocals
    /\ UNCHANGED <<posix, pc>>

\* Lines 15-36: the file is read and no line gives a message; returns False.
NoValidMessages(p) ==
    /\ pc = "idle"
    /\ Len(hist) < MaxRuns
    /\ Exists(fs, p)
    /\ ParseLines(fs[p].data) = <<>>
    /\ session_path' = p
    /\ pre' = fs
    /\ result' = "False"
    /\ fs' = fs
    /\ hist' = Append(hist, Run(p, FALSE, fs, fs'))
    /\ NoLocals
    /\ UNCHANGED <<posix, pc>>

\* Lines 15-38: the file is read and at least one line parses.
ReadLines(p) ==
    /\ pc = "idle"
    /\ Len(hist) < MaxRuns
    /\ Exists(fs, p)
    /\ ParseLines(fs[p].data) # <<>>
    /\ session_path' = p
    /\ pre' = fs
    /\ result' = "none"
    /\ lines' = ParseLines(fs[p].data)
    /\ pc' = "snapshot"
    /\ UNCHANGED <<posix, fs, has_snapshot, fixed_lines, i, k, hist>>

\* Line 41 raises AttributeError on a parsed value that is not an object.
AnyRaisesError ==
    /\ pc = "snapshot"
    /\ AnyRaises(lines)
    /\ pc' = "raised"
    /\ NoLocals
    /\ UNCHANGED <<posix, fs, session_path, result, pre, hist>>

\* Lines 41-59 when no record is a snapshot: one is synthesized.
AddSnapshot ==
    /\ pc = "snapshot"
    /\ ~AnyRaises(lines)
    /\ ~HasSnapshot(lines)
    /\ has_snapshot' = FALSE
    /\ \E g \in GenIds : fixed_lines' = <<Snapshot(lines[1].msg, g)>>
    /\ i' = 1
    /\ pc' = "fix"
    /\ UNCHANGED <<posix, fs, session_path, lines, k, result, pre, hist>>

\* Lines 41-46 when some record is a snapshot.
KeepSnapshot ==
    /\ pc = "snapshot"
    /\ ~AnyRaises(lines)
    /\ HasSnapshot(lines)
    /\ has_snapshot' = TRUE
    /\ fixed_lines' = <<>>
    /\ i' = 1
    /\ pc' = "fix"
    /\ UNCHANGED <<posix, fs, session_path, lines, k, result, pre, hist>>

\* After the body of the loop of line 62 for lines[i].
NextMsg ==
    /\ i' = i + 1
    /\ pc' = IF i = Len(lines) THEN "rename" ELSE "fix"

\* Line 63 raises AttributeError on a parsed value that is not an object.
FixRaises ==
    /\ pc = "fix"
    /\ ~lines[i].dict
    /\ pc' = "raised"
    /\ NoLocals
    /\ UNCHANGED <<posix, fs, session_path, result, pre, hist>>

\* Variant: a snapshot record of the input is skipped, not appended.
PassSnapshotDropped ==
    /\ pc = "fix"
    /\ lines[i].dict
    /\ IsSnapshot(lines[i].msg)
    /\ NextMsg
    /\ UNCHANGED <<posix, fs, session_path, lines, has_snapshot, fixed_lines, k,
                   result, pre, hist>>

\* Lines 66-68: a snapshot record is appended as it is.
PassSnapshot ==
    /\ pc = "fix"
    /\ lines[i].dict
    /\ IsSnapshot(lines[i].msg)
    /\ fixed_lines' = Append(fixed_lines, lines[i].msg)
    /\ NextMsg
    /\ UNCHANGED <<posix, fs, session_path, lines, has_snapshot, k, result, pre, hist>>

\* Lines 70-90: the record is changed in place and appended.
FixMsg ==
    /\ pc = "fix"
    /\ lines[i].dict
    /\ ~IsSnapshot(lines[i].msg)
    /\ \E g \in GenIds :
          LET msg == FixFields(lines[i].msg, g)
          IN /\ lines' = [lines EXCEPT ![i] = Dict(msg)]
             /\ fixed_lines' = Append(fixed_lines, msg)
    /\ NextMsg
    /\ UNCHANGED <<posix, fs, session_path, has_snapshot, k, result, pre, hist>>

\* os.rename replaces an existing target on POSIX and raises FileExistsError
\* on Windows.
RenameAllowed(f, dst) == posix \/ ~Exists(f, dst)

\* Variant: the rename is left for after the write.
RenameDeferred ==
    /\ pc = "rename"
    /\ pc' = "open"
    /\ UNCHANGED <<posix, fs, session_path, lines, has_snapshot, fixed_lines, i, k,
                   result, pre, hist>>

\* Variant: a backup that exists already is kept, the rename is skipped.
RenameKeepingBackup ==
    /\ pc = "rename"
    /\ fs' = IF Exists(fs, BackupPath(session_path)) THEN fs
             ELSE RenameFs(fs, session_path, BackupPath(session_path))
    /\ pc' = "open"
    /\ UNCHANGED <<posix, session_path, lines, has_snapshot, fixed_lines, i, k,
                   result, pre, hist>>

\* Lines 93-94.
Rename ==
    /\ pc = "rename"
    /\ RenameAllowed(fs, BackupPath(session_path))
    /\ fs' = RenameFs(fs, session_path, BackupPath(session_path))
    /\ pc' = "open"
    /\ UNCHANGED <<posix, session_path, lines, has_snapshot, fixed_lines, i, k,
                   result, pre, hist>>

\* Line 94 raises.
RenameRaises ==
    /\ pc = "rename"
    /\ ~RenameAllowed(fs, BackupPath(session_path))
    /\ pc' = "raised"
    /\ NoLocals
    /\ UNCHANGED <<posix, fs, session_path, result, pre, hist>>

\* Line 98: open(session_file, 'w') creates the file empty.
OpenForWrite ==
    /\ pc = "open"
    /\ fs' = [fs EXCEPT ![session_path] = File(<<>>)]
    /\ k' = 1
    /\ pc' = "write"
    /\ UNCHANGED <<posix, session_path, lines, has_snapshot, fixed_lines, i,
                   result, pre, hist>>

\* Lines 99-100: one record is written.
WriteMsg ==
    /\ pc = "write"
    /\ k <= Len(fixed_lines)
    /\ fs' = [fs EXCEPT ![session_path] =
                 File(Append(fs[session_path].data, Dumps(fixed_lines[k])))]
    /\ k' = k + 1
    /\ UNCHANGED <<posix, pc, session_path, lines, has_snapshot, fixed_lines, i,
                   result, pre, hist>>

\* Lines 100-105: the file is closed and fix_session returns True.
ReturnTrue ==
    /\ pc = "write"
    /\ k > Len(fixed_lines)
    /\ result' = "True"
    /\ hist' = Append(hist, Run(session_path, TRUE, pre, fs))
    /\ pc' = "idle"
    /\ NoLocals
    /\ UNCHANGED <<posix, fs, session_path, pre>>

\* The process is killed between two steps.
Crash ==
    /\ pc \in {"snapshot", "fix", "rename", "open", "write"}
    /\ pc' = "crashed"
    /\ NoLocals
    /\ UNCHANGED <<posix, fs, session_path, result, pre, hist>>

\* The process is killed while a record is being written: a truncated line.
CrashInWrite ==
    /\ pc = "write"
    /\ k <= Len(fixed_lines)
    /\ fs' = [fs EXCEPT ![session_path] = File(Append(fs[session_path].data, BadLine))]
    /\ pc' = "crashed"
    /\ NoLocals
    /\ UNCHANGED <<posix, session_path, result, pre, hist>>

Next ==
    \/ \E p \in SessionPaths : NotFound(p)
    \/ \E p \in SessionPaths : NoValidMessages(p)
    \/ \E p \in SessionPaths : ReadLines(p)
    \/ AnyRaisesError
    \/ AddSnapshot
    \/ KeepSnapshot
    \/ FixRaises
    \/ PassSnapshot
    \/ FixMsg
    \/ Rename
    \/ RenameRaises
    \/ OpenForWrite
    \/ WriteMsg
    \/ ReturnTrue
    \/ Crash
    \/ CrashInWrite

Spec == Init /\ [][Next]_vars

\* ----------------------------------------------------- claim vocabulary
\* The records of the lines of a file that hold a JSON object, in order.
IsObjLine(l) == l.kind = "obj"
RecordsOf(data) ==
    LET sel == SelectSeq(data, IsObjLine) IN [j \in 1..Len(sel) |-> sel[j].rec]

SnapshotCount(recs) == Cardinality({j \in 1..Len(recs) : MsgType(recs[j]) = SNAPSHOT})

InRecs(h) == RecordsOf(h.pre[h.path].data)
OutRecs(h) == RecordsOf(h.post[h.path].data)
\* 1 when the run had to synthesize a snapshot, else 0.
Offset(h) == IF SnapshotCount(InRecs(h)) = 0 THEN 1 ELSE 0

OkRuns == {n \in 1..Len(hist) : hist[n].ok}
\* Two successful runs in a row on the same path: n - 1 and n.
Reruns == {n \in 2..Len(hist) :
              hist[n].ok /\ hist[n - 1].ok /\ hist[n].path = hist[n - 1].path}

\* The backup name the documentation gives for a two-part name stem.ext.
ExpectedBackup(p) == <<p[1], "jsonl", "backup">>

AddedKeys == {"gitBranch", "requestId", "thinkingMetadata"}
\* b is a with fields added or the version overwritten, nothing else.
Corresponds(a, b) ==
    /\ MsgType(a) = MsgType(b)
    /\ DOMAIN a \subseteq DOMAIN b
    /\ DOMAIN b \subseteq DOMAIN a \cup AddedKeys
    /\ \A key \in DOMAIN a \ {"version"} : b[key] = a[key]

\* ----------------------------------------------------------------- claims
\* C1 (as stated): after a successful run the output holds exactly one
\* file-history-snapshot record, and it is first when the input held none.
C1_ExactlyOneSnapshot ==
    \A n \in OkRuns :
        /\ SnapshotCount(OutRecs(hist[n])) = 1
        /\ SnapshotCount(InRecs(hist[n])) = 0 => MsgType(OutRecs(hist[n])[1]) = SNAPSHOT

\* C1 (amended): the output holds one snapshot record when the input held
\* none, and it is then the first record; otherwise it holds as many as the
\* input did (one for one, several for several).
C1_SnapshotCount ==
    \A n \in OkRuns :
        LET cin == SnapshotCount(InRecs(hist[n]))
            cout == SnapshotCount(OutRecs(hist[n]))
        IN /\ cout = (IF cin = 0 THEN 1 ELSE cin)
           /\ cout >= 1
           /\ cin = 0 => MsgType(OutRecs(hist[n])[1]) = SNAPSHOT

C1_Witness ==
    \E n \in OkRuns :
        /\ SnapshotCount(InRecs(hist[n])) = 0
        /\ MsgType(OutRecs(hist[n])[1]) = SNAPSHOT

\* C2: a run on a missing path, or on a file whose lines are all blank or
\* unparsable, returns failure and leaves every file as it was; and a run
\* returns failure only in those two cases.
C2_FailureChangesNothing ==
    \A n \in 1..Len(hist) :
        LET h == hist[n]
            nothing == \/ ~h.pre[h.path].exists
                       \/ \A j \in 1..Len(h.pre[h.path].data) :
                             h.pre[h.path].data[j].kind \in {"blank", "bad"}
        IN /\ nothing => ~h.ok /\ h.post = h.pre
           /\ ~h.ok => nothing
           /\ (n = Len(hist) /\ pc = "idle" /\ ~h.ok) => result = "False" /\ fs = h.pre

C2_Witness ==
    \E n \in 1..Len(hist) :
        /\ ~hist[n].ok
        /\ hist[n].pre[hist[n].path].exists
        /\ hist[n].pre[hist[n].path].data # <<>>
        /\ hist[n].post[BackupPath(hist[n].path)] = Missing

\* C3: within a run the files are untouched until parsing and fixing are
\* over, the rename comes next and the write after it: before the rename
\* the original path holds the pre-fix content, from the rename on the backup
\* path holds it, and when the run dies between rename and write the original
\* path is missing; it is never rewritten while the backup lacks the content.
C3_RenameThenWrite ==
    pc # "idle" =>
        LET p == session_path
            b == ExpectedBackup(p)
            orig == pre[p]
            untouched == fs = pre
            moved == /\ fs[b] = orig
                     /\ \A n \in Names \ {p, b} : fs[n] = pre[n]
        IN /\ orig.exists
           /\ fs[p] = orig \/ fs[b] = orig
           /\ pc \in {"snapshot", "fix", "rename", "raised"} => untouched
           /\ pc = "open" => moved /\ ~fs[p].exists
           /\ pc = "write" => moved /\ fs[p].exists
           /\ pc = "crashed" => untouched \/ moved
           /\ fs[p] # orig => moved

C3_Witness ==
    /\ pc = "crashed"
    /\ ~fs[session_path].exists
    /\ fs[ExpectedBackup(session_path)] = pre[session_path]
    /\ pre[session_path].data # <<>>

\* C4 (as stated): every output record that has a version field has
\* version "2.0.28", snapshot records passed through included.
C4_EveryVersionRewritten ==
    \A n \in OkRuns :
        \A j \in 1..Len(OutRecs(hist[n])) :
            "version" \in DOMAIN OutRecs(hist[n])[j] =>
                OutRecs(hist[n])[j]["version"] = VERSION

\* C4 (amended): every output record that has a version field and is not a
\* file-history-snapshot record has version "2.0.28" whatever it was in the
\* input; a snapshot record of the input is written back as it was read,
\* version included.
C4_VersionRewrittenExceptSnapshots ==
    \A n \in OkRuns :
        LET in == InRecs(hist[n])
            out == OutRecs(hist[n])
            off == Offset(hist[n])
        IN /\ \A j \in 1..Len(out) :
                ("version" \in DOMAIN out[j] /\ MsgType(out[j]) # SNAPSHOT) =>
                    out[j]["version"] = VERSION
           /\ Len(out) = Len(in) + off
           /\ \A j \in 1..Len(in) :
                /\ "version" \in DOMAIN in[j] <=> "version" \in DOMAIN out[j + off]
                /\ MsgType(in[j]) = SNAPSHOT => out[j + off] = in[j]

C4_Witness ==
    \E n \in OkRuns :
        \E j \in 1..Len(InRecs(hist[n])) :
            LET a == InRecs(hist[n])[j]
            IN /\ MsgType(a) # SNAPSHOT
               /\ "version" \in DOMAIN a
               /\ a["version"] # VERSION
               /\ OutRecs(hist[n])[j + Offset(hist[n])]["version"] = VERSION

\* C5: the output is the parsed input records in their order, one output
\* record for each (the same record with fields added or its version
\* overwritten), with one synthesized snapshot in front when the input held
\* no snapshot and nothing in front otherwise; blank and unparsable lines
\* leave nothing in the output.
C5_OrderAndCount ==
    \A n \in OkRuns :
        LET in == InRecs(hist[n])
            out == OutRecs(hist[n])
            off == Offset(hist[n])
            written == hist[n].post[hist[n].path].data
        IN /\ Len(out) = Len(in) + off
           /\ Len(out) - Len(in) \in {0, 1}
           /\ off = 1 => MsgType(out[1]) = SNAPSHOT
           /\ \A j \in 1..Len(in) : Corresponds(in[j], out[j + off])
           /\ \A j \in 1..Len(written) : written[j].kind = "obj"

C5_Witness ==
    \E n \in OkRuns :
        /\ Len(InRecs(hist[n])) >= 2
        /\ InRecs(hist[n])[1] # InRecs(hist[n])[2]
        /\ Offset(hist[n]) = 1
        /\ Len(OutRecs(hist[n])) = Len(InRecs(hist[n])) + 1

\* C6: when the input holds no snapshot the first output record is the
\* synthesized one: its messageId and snapshot.messageId are the same value,
\* the uuid of the first parsed record or a generated identifier when that
\* record has none; snapshot.timestamp is that record's timestamp or the
\* default; trackedFileBackups is empty and isSnapshotUpdate is false.
C6_SynthesizedSnapshot ==
    \A n \in OkRuns :
        SnapshotCount(InRecs(hist[n])) = 0 =>
            LET first == InRecs(hist[n])[1]
                s == OutRecs(hist[n])[1]
            IN /\ DOMAIN s = {"type", "messageId", "snapshot", "isSnapshotUpdate"}
               /\ s["type"] = SNAPSHOT
               /\ s["messageId"] = s["snapshot"]["messageId"]
               /\ s["messageId"] = (IF "uuid" \in DOMAIN first
                                   THEN first["uuid"] ELSE s["messageId"])
               /\ "uuid" \notin DOMAIN first => s["messageId"] \in GenIds
               /\ s["snapshot"]["timestamp"] =
                     (IF "timestamp" \in DOMAIN first
                      THEN first["timestamp"] ELSE "2025-10-29T10:00:00.000Z")
               /\ DOMAIN s["snapshot"]["trackedFileBackups"] = {}
               /\ s["isSnapshotUpdate"] = FALSE

C6_Witness ==
    \E n \in OkRuns :
        /\ SnapshotCount(InRecs(hist[n])) = 0
        /\ "uuid" \in DOMAIN InRecs(hist[n])[1]
        /\ "timestamp" \in DOMAIN InRecs(hist[n])[1]
        /\ OutRecs(hist[n])[1]["snapshot"]["messageId"] = InRecs(hist[n])[1]["uuid"]

\* C7 (as stated): every output record of type user has a thinkingMetadata
\* field that carries a level sub-field.
C7_UserHasLevel ==
    \A n \in OkRuns :
        \A j \in 1..Len(OutRecs(hist[n])) :
            MsgType(OutRecs(hist[n])[j]) = "user" =>
                /\ "thinkingMetadata" \in DOMAIN OutRecs(hist[n])[j]
                /\ "level" \in DOMAIN OutRecs(hist[n])[j]["thinkingMetadata"]

\* C7 (amended): every output record of type user has a thinkingMetadata
\* field; it is the input's value, unchanged, when the input record had one,
\* and otherwise the default, which carries a level sub-field.
C7_UserHasThinkingMetadata ==
    \A n \in OkRuns :
        LET in == InRecs(hist[n])
            out == OutRecs(hist[n])
            off == Offset(hist[n])
        IN /\ \A j \in 1..Len(out) :
                MsgType(out[j]) = "user" => "thinkingMetadata" \in DOMAIN out[j]
           /\ \A j \in 1..Len(in) :
                MsgType(in[j]) = "user" =>
                    /\ MsgType(out[j + off]) = "user"
                    /\ IF "thinkingMetadata" \in DOMAIN in[j]
                       THEN out[j + off]["thinkingMetadata"] = in[j]["thinkingMetadata"]
                       ELSE "level" \in DOMAIN out[j + off]["thinkingMetadata"]

C7_Witness ==
    \E n \in OkRuns :
        \E j \in 1..Len(InRecs(hist[n])) :
            /\ MsgType(InRecs(hist[n])[j]) = "user"
            /\ "thinkingMetadata" \notin DOMAIN InRecs(hist[n])[j]
            /\ "level" \in DOMAIN OutRecs(hist[n])[j + Offset(hist[n])]["thinkingMetadata"]

\* C8: after a successful run the backup path (the name with its extension
\* replaced by .jsonl.backup) holds the file exactly as it was before the
\* run, blank and unparsable lines included, the original path holds the
\* fixed records as json.dumps writes them, no other file is touched; and the
\* backup is a move: between the rename and the write the original path is
\* missing.
C8_BackupHoldsOriginal ==
    /\ \A n \in OkRuns :
          LET h == hist[n]
              b == ExpectedBackup(h.path)
          IN /\ h.pre[h.path].exists
             /\ h.post[b] = h.pre[h.path]
             /\ h.post[h.path].exists
             /\ \A j \in 1..Len(h.post[h.path].data) :
                   h.post[h.path].data[j].kind = "obj" /\ h.post[h.path].data[j].canon
             /\ Len(h.post[h.path].data) >= 1
             /\ \A x \in Names \ {h.path, b} : h.post[x] = h.pre[x]
             /\ (n = Len(hist) /\ pc = "idle") => result = "True" /\ fs = h.post
    /\ pc = "open" =>
          /\ ~fs[session_path].exists
          /\ fs[ExpectedBackup(session_path)] = pre[session_path]
    /\ (pc = "write" /\ k > Len(fixed_lines)) =>
          /\ RecordsOf(fs[session_path].data) = fixed_lines
          /\ Len(fs[session_path].data) = Len(fixed_lines)

C8_Witness ==
    \E n \in OkRuns :
        /\ \E j \in 1..Len(hist[n].pre[hist[n].path].data) :
              hist[n].pre[hist[n].path].data[j].kind \in {"blank", "bad"}
        /\ hist[n].post[ExpectedBackup(hist[n].path)] = hist[n].pre[hist[n].path]
        /\ hist[n].post[hist[n].path] # hist[n].pre[hist[n].path]

\* C9 (as stated): after a second successful run in a row on the same path
\* the backup path holds the first run's output, and the content the file
\* had before the first run is at neither path.
C9_OriginalContentGone ==
    \A n \in Reruns :
        LET p == hist[n].path
            b == ExpectedBackup(p)
            orig == hist[n - 1].pre[p]
        IN /\ hist[n].post[b] = hist[n - 1].post[p]
           /\ hist[n].post[p] # orig
           /\ hist[n].post[b] # orig

\* C9 (amended): after a second successful run in a row on the same path the
\* backup path holds the first run's output, with no collision check; the
\* content the file had before the first run is at neither path, unless the
\* first run's output was identical to it.
C9_BackupOverwritten ==
    \A n \in Reruns :
        LET p == hist[n].path
            b == ExpectedBackup(p)
            orig == hist[n - 1].pre[p]
        IN /\ hist[n - 1].post[b] = orig
           /\ hist[n].post[b] = hist[n - 1].post[p]
           /\ hist[n - 1].post[p] # orig =>
                 /\ hist[n].post[p] # orig
                 /\ hist[n].post[b] # orig

C9_Witness ==
    \E n \in Reruns :
        /\ hist[n - 1].post[hist[n].path] # hist[n - 1].pre[hist[n].path]
        /\ hist[n].post[ExpectedBackup(hist[n].path)] = hist[n - 1].post[hist[n].path]
        /\ hist[n].post[ExpectedBackup(hist[n].path)] # hist[n - 1].pre[hist[n].path]

\* C10: a successful run on the output of a successful run writes the
\* records it read: none added, removed or changed, no snapshot synthesized,
\* no identifier generated again.
C10_Idempotent ==
    \A n \in Reruns :
        /\ OutRecs(hist[n]) = InRecs(hist[n])
        /\ OutRecs(hist[n]) = OutRecs(hist[n - 1])
        /\ hist[n].post[hist[n].path] = hist[n - 1].post[hist[n].path]

C10_Witness ==
    \E n \in Reruns :
        \E j \in 1..Len(OutRecs(hist[n])) :
            /\ MsgType(OutRecs(hist[n])[j]) = "assistant"
            /\ OutRecs(hist[n])[j]["requestId"] \in {ReqId(g) : g \in GenIds}
            /\ Offset(hist[n - 1]) = 1

====
